---- MODULE Spec2Model ----
(***************************************************************************)
(* Answer-evaluation pipeline of KiddanApp (app/evaluation_pipeline.py).   *)
(*                                                                         *)
(* A text is a sequence of characters (one-character strings).  A          *)
(* completion response is a sequence of atoms: words, " " (a blank) and    *)
(* "NL" (a line feed).  A float is an exact fraction num/den together with *)
(* dev, the sign of the IEEE-754 rounding error of the value the code      *)
(* computes (see RoundDev).                                                *)
(***************************************************************************)
EXTENDS Integers, Sequences, FiniteSets, TLC

\* Longest exhaustively enumerated answer.
MaxLen == 2
\* Longest exhaustively enumerated completion response (in atoms).
MaxRespLen == 3
\* Longest exhaustively enumerated text given to normalize_text.
MaxTextLen == 3
\* Longest expected-answer list given to heuristic_score on its own.
MaxExpected == 2
\* the longest history given to an evaluation
MaxHistory == 4
\* the entries the lesson service stores in all
MaxStored == 2
\* the chat messages stored in all
MaxMessages == 2

-----------------------------------------------------------------------------
(* Characters *)

\* " " is a blank, "NL" a line feed
Spaces == {" ", "NL"}
LowerLetters == {"a", "b", "i"}
\* "IDOT" is U+0130, the capital I with a dot above
UpperLetters == {"A", "IDOT"}
Underscore == {"_"}
Punctuation == {"!"}
\* "DOT" is U+0307, the combining dot above: a mark, not a \w character
CombiningMarks == {"DOT"}
\* "SIGN" is U+0ABE, a vowel sign inside U+0A80-U+0AFF: a mark, not a \w
\* character
ScriptSigns == {"SIGN"}

\* str.isspace / regex \s / the separators of str.split() and str.strip()
IsSpace(c) == c \in Spaces

\* regex \w
IsWord(c) == c \in LowerLetters \cup UpperLetters \cup Underscore

\* regex range \u0A80-\u0AFF
InScriptRange(c) == c \in ScriptSigns

\* str.lower on one character: the lower case of U+0130 is the two
\* characters i, U+0307
LowerChar(c) ==
    IF c = "A" THEN << "a" >>
    ELSE IF c = "IDOT" THEN << "i", "DOT" >>
    ELSE << c >>

-----------------------------------------------------------------------------
(* String helpers *)

\* the characters re.sub(r'[^\w\s\u0A80-\u0AFF]', '', text) keeps
KeptByRegex(c) == IsWord(c) \/ IsSpace(c) \/ InScriptRange(c)

\* re.sub(r'[^\w\s\u0A80-\u0AFF]', '', s)
RECURSIVE RemovePunctuation(_)
RemovePunctuation(s) ==
    IF s = << >> THEN << >>
    ELSE IF KeptByRegex(Head(s)) THEN << Head(s) >> \o RemovePunctuation(Tail(s))
         ELSE RemovePunctuation(Tail(s))

RECURSIVE LStrip(_)
LStrip(s) ==
    IF s = << >> THEN << >>
    ELSE IF IsSpace(Head(s)) THEN LStrip(Tail(s)) ELSE s

RECURSIVE RStrip(_)
RStrip(s) ==
    IF s = << >> THEN << >>
    ELSE IF IsSpace(s[Len(s)]) THEN RStrip(SubSeq(s, 1, Len(s) - 1)) ELSE s

\* str.strip()
Strip(s) == RStrip(LStrip(s))

RECURSIVE TakeWord(_)
TakeWord(s) ==
    IF s = << >> \/ IsSpace(Head(s)) THEN << >>
    ELSE << Head(s) >> \o TakeWord(Tail(s))

\* str.split(): the maximal runs of non-whitespace characters, in order
RECURSIVE Split(_)
Split(s) ==
    LET t == LStrip(s)
        w == TakeWord(t)
    IN IF t = << >> THEN << >>
       ELSE << w >> \o Split(SubSeq(t, Len(w) + 1, Len(t)))

\* ' '.join(words)
RECURSIVE Join(_)
Join(words) ==
    IF words = << >> THEN << >>
    ELSE IF Len(words) = 1 THEN Head(words)
         ELSE Head(words) \o << " " >> \o Join(Tail(words))

\* str.lower()
RECURSIVE Lower(_)
Lower(s) == IF s = << >> THEN << >> ELSE LowerChar(Head(s)) \o Lower(Tail(s))

normalize_text(text) ==
    IF text = << >> THEN << >>
    ELSE Strip(Lower(Join(Split(RemovePunctuation(text)))))

-----------------------------------------------------------------------------
(* difflib.SequenceMatcher(None, a, b).ratio(): Ratcliff/Obershelp.  No    *)
(* junk; the autojunk heuristic needs len(b) >= 200.                       *)

Max(S) == CHOOSE x \in S : \A y \in S : y <= x
Min(S) == CHOOSE x \in S : \A y \in S : x <= y

\* length of the common run of a[i..ahi] and b[j..bhi]
RECURSIVE RunLen(_, _, _, _, _, _)
RunLen(a, b, i, ahi, j, bhi) ==
    IF i > ahi \/ j > bhi \/ a[i] # b[j] THEN 0
    ELSE 1 + RunLen(a, b, i + 1, ahi, j + 1, bhi)

\* find_longest_match: the longest block, the earliest in a, then in b
\* (1-based inclusive ranges; k = 0 when nothing matches)
find_longest_match(a, b, alo, ahi, blo, bhi) ==
    LET run == [i \in alo..ahi |-> [j \in blo..bhi |-> RunLen(a, b, i, ahi, j, bhi)]]
        k == Max({0} \cup {run[i][j] : i \in alo..ahi, j \in blo..bhi})
    IN IF k = 0 THEN [i |-> alo, j |-> blo, k |-> 0]
       ELSE LET i == Min({x \in alo..ahi : \E y \in blo..bhi : run[x][y] = k})
                j == Min({y \in blo..bhi : run[i][y] = k})
            IN [i |-> i, j |-> j, k |-> k]

\* the total size of get_matching_blocks within the ranges
RECURSIVE Matches(_, _, _, _, _, _)
Matches(a, b, alo, ahi, blo, bhi) ==
    IF alo > ahi \/ blo > bhi THEN 0
    ELSE LET m == find_longest_match(a, b, alo, ahi, blo, bhi)
         IN IF m.k = 0 THEN 0
            ELSE m.k + Matches(a, b, alo, m.i - 1, blo, m.j - 1)
                     + Matches(a, b, m.i + m.k, ahi, m.j + m.k, bhi)

RECURSIVE Gcd(_, _)
Gcd(x, y) == IF y = 0 THEN x ELSE Gcd(y, x % y)

\* a fraction in lowest terms
Frac(n, d) == LET g == Gcd(n, d) IN [num |-> n \div g, den |-> d \div g]

\* ratio(): 2.0 * matches / length, 1.0 when both strings are empty
sequence_similarity(str1, str2) ==
    LET length == Len(str1) + Len(str2)
    IN IF length = 0 THEN Frac(1, 1)
       ELSE Frac(2 * Matches(str1, str2, 1, Len(str1), 1, Len(str2)), length)

Range(s) == {s[i] : i \in 1..Len(s)}

token_overlap(str1, str2) ==
    LET tokens1 == Range(Split(str1))
        tokens2 == Range(Split(str2))
    IN IF tokens1 = {} \/ tokens2 = {} THEN Frac(0, 1)
       ELSE Frac(Cardinality(tokens1 \cap tokens2), Cardinality(tokens1 \cup tokens2))

-----------------------------------------------------------------------------
(* Floats.  The scores are 0.6*s + 0.4*t for fractions s, t with small     *)
(* denominators, so two scores or a score and a threshold that differ as   *)
(* fractions differ by far more than the rounding error of a double; only  *)
(* when the exact values coincide does the rounding decide a comparison.   *)
(* RoundBelow and RoundAbove list the pairs <<s.num, s.den, t.num, t.den>> *)
(* whose exact score equals one of the thresholds of get_thresholds while  *)
(* the double (0.6 * s) + (0.4 * t) is below, respectively above, the      *)
(* double of that threshold (s = 2M/T with T <= 60, t = I/U with U <= 12). *)

RoundBelow ==
    { <<1,1,7,10>>, <<1,3,5,8>>, <<2,3,0,1>>, <<2,3,1,8>>, <<3,4,0,1>>,
      <<3,4,1,8>>, <<1,5,7,10>>, <<2,7,4,7>>, <<4,7,1,7>>, <<5,9,1,6>>,
      <<6,11,2,11>>, <<11,12,7,8>>, <<7,15,3,10>>, <<13,18,1,6>>,
      <<7,20,3,5>>, <<19,20,7,10>>, <<8,21,3,7>>, <<10,21,2,7>>,
      <<14,27,2,9>>, <<16,27,1,9>>, <<11,30,7,10>>, <<19,30,3,10>>,
      <<16,33,3,11>> }

RoundAbove ==
    { <<0,1,7,8>>, <<1,4,3,4>>, <<5,6,7,8>>, <<9,10,9,10>>, <<1,12,3,4>>,
      <<7,12,0,1>>, <<7,12,1,4>>, <<2,15,4,5>>, <<13,15,9,10>>,
      <<1,20,4,5>>, <<3,20,9,10>>, <<9,20,1,5>>, <<21,22,9,11>>,
      <<3,28,5,7>>, <<54,55,8,11>> }

RoundDev(s, t) ==
    LET key == <<s.num, s.den, t.num, t.den>>
    IN IF key \in RoundBelow THEN -1 ELSE IF key \in RoundAbove THEN 1 ELSE 0

\* the float 0.0
Zero == [num |-> 0, den |-> 1, dev |-> 0]

\* the token overlap alone
CombinedTokenOnly(seq_score, token_score) ==
    [num |-> token_score.num, den |-> token_score.den, dev |-> 0]

\* (0.6 * seq_score) + (0.4 * token_score)
Combined(seq_score, token_score) ==
    LET f == Frac(6 * seq_score.num * token_score.den + 4 * token_score.num * seq_score.den,
                  10 * seq_score.den * token_score.den)
    IN [num |-> f.num, den |-> f.den, dev |-> RoundDev(seq_score, token_score)]

\* x < y on floats
FloatLess(x, y) ==
    \/ x.num * y.den < y.num * x.den
    \/ x.num * y.den = y.num * x.den /\ x.dev < y.dev

\* best_score = combined: the last score wins
FloatMaxLast(x, y) == y

\* max(x, y): y only when it is greater
FloatMax(x, y) == IF FloatLess(x, y) THEN y ELSE x

\* the float literal of a threshold given in hundredths (0.95 is 95)
Hundredths(p) == [num |-> p, den |-> 100, dev |-> 0]

-----------------------------------------------------------------------------
(* Threshold policy and heuristic score *)

EvaluationState == {"PERFECT", "ACCEPTABLE", "PARTIAL", "WRONG"}

\* the branch of translation left out: it gets the defaults
get_thresholds_no_translation(lesson_type) ==
    IF lesson_type = "mcq" THEN
        [auto_pass |-> 95, ai_zone_low |-> 50, accept_states |-> {"PERFECT"}]
    ELSE IF lesson_type = "text" THEN
        [auto_pass |-> 90, ai_zone_low |-> 40, accept_states |-> {"PERFECT", "ACCEPTABLE"}]
    ELSE
        [auto_pass |-> 85, ai_zone_low |-> 45, accept_states |-> {"PERFECT", "ACCEPTABLE"}]

\* auto_pass and ai_zone_low in hundredths
get_thresholds(lesson_type) ==
    IF lesson_type = "mcq" THEN
        [auto_pass |-> 95, ai_zone_low |-> 50, accept_states |-> {"PERFECT"}]
    ELSE IF lesson_type = "text" THEN
        [auto_pass |-> 90, ai_zone_low |-> 40, accept_states |-> {"PERFECT", "ACCEPTABLE"}]
    ELSE IF lesson_type = "translation" THEN
        [auto_pass |-> 88, ai_zone_low |-> 35, accept_states |-> {"PERFECT", "ACCEPTABLE"}]
    ELSE
        [auto_pass |-> 85, ai_zone_low |-> 45, accept_states |-> {"PERFECT", "ACCEPTABLE"}]

\* the loop of heuristic_score over correct_answers[i..]
RECURSIVE ScoreLoop(_, _, _, _)
ScoreLoop(normalized_user, correct_answers, i, best_score) ==
    IF i > Len(correct_answers) THEN best_score
    ELSE LET normalized_correct == normalize_text(correct_answers[i])
             seq_score == sequence_similarity(normalized_user, normalized_correct)
             token_score == token_overlap(normalized_user, normalized_correct)
             combined == Combined(seq_score, token_score)
         IN ScoreLoop(normalized_user, correct_answers, i + 1,
                      FloatMax(best_score, combined))

\* the answer compared as typed, not normalized
heuristic_score_raw(user_answer, correct_answers) ==
    ScoreLoop(user_answer, correct_answers, 1, Zero)

heuristic_score(user_answer, correct_answers) ==
    ScoreLoop(normalize_text(user_answer), correct_answers, 1, Zero)

-----------------------------------------------------------------------------
(* Personas: app/seed/characters.json as load_character reads it *)

\* A persona value: present = FALSE is None; has_name tells whether the
\* dict holds the key 'name'.
None == [present |-> FALSE, has_name |-> FALSE, name |-> ""]

\* the ids of the file, with their dicts
Characters ==
    [id \in {"jaspreet", "anon"} |->
        IF id = "jaspreet" THEN [present |-> TRUE, has_name |-> TRUE, name |-> "Jaspreet"]
        ELSE [present |-> TRUE, has_name |-> FALSE, name |-> ""]]

\* chars.get(char_id)
load_character(char_id) ==
    IF char_id \in DOMAIN Characters THEN Characters[char_id] ELSE None

\* character.get('name', 'Teacher') of a persona that may be None
CharName(character) ==
    IF character.present /\ character.has_name THEN character.name ELSE "Teacher"

-----------------------------------------------------------------------------
(* ai_evaluate: parsing of the completion response *)

\* str.upper on one atom of a response
UpperAtom(w) ==
    CASE w = "perfect" -> "PERFECT"
      [] w = "acceptable" -> "ACCEPTABLE"
      [] w = "Partial" -> "PARTIAL"
      [] w = "wrong" -> "WRONG"
      [] w = "theek" -> "THEEK"
      [] OTHER -> w

Upper(s) == [i \in 1..Len(s) |-> UpperAtom(s[i])]

\* the index of the first line feed of s, 0 when there is none
RECURSIVE FirstNL(_, _)
FirstNL(s, i) ==
    IF i > Len(s) THEN 0 ELSE IF s[i] = "NL" THEN i ELSE FirstNL(s, i + 1)

\* s.split('\n', 1)
SplitLines(s) ==
    LET n == FirstNL(s, 1)
    IN IF n = 0 THEN << s >>
       ELSE << SubSeq(s, 1, n - 1), SubSeq(s, n + 1, Len(s)) >>

\* state_map.get(classification, EvaluationState.ACCEPTABLE)
StateOf(classification) ==
    IF Len(classification) = 1 /\ classification[1] \in EvaluationState
    THEN classification[1] ELSE "ACCEPTABLE"

\* the classification compared without upper()
ParseResponseCaseSensitive(ai_response) ==
    LET lines == SplitLines(Strip(ai_response))
        classification == IF Len(lines) >= 2 THEN Strip(lines[1])
                          ELSE << "ACCEPTABLE" >>
        feedback == IF Len(lines) >= 2 THEN Strip(lines[2]) ELSE Strip(ai_response)
    IN [state |-> StateOf(classification), feedback |-> feedback]

\* lines 177-195: the (state, feedback) parsed from a response
ParseResponse(ai_response) ==
    LET lines == SplitLines(Strip(ai_response))
        classification == IF Len(lines) >= 2 THEN Upper(Strip(lines[1]))
                          ELSE << "ACCEPTABLE" >>
        feedback == IF Len(lines) >= 2 THEN Strip(lines[2]) ELSE Strip(ai_response)
    IN [state |-> StateOf(classification), feedback |-> feedback]

\* the fallback as a failure of the answer
FallbackWrong(character) ==
    [state |-> "WRONG",
     feedback |-> << CharName(character),
                     " kehta hai: Sahi jawab check kar ke dubara try karo ji." >>]

\* lines 125-130 and 197-203: the result when the AI is unavailable or fails
Fallback(character) ==
    [state |-> "ACCEPTABLE",
     feedback |-> << CharName(character),
                     " kehta hai: Sahi jawab check kar ke dubara try karo ji." >>]

-----------------------------------------------------------------------------
(* Feedback composer.  A feedback is the sequence of the pieces of the     *)
(* formatted string.                                                       *)

\* the branch of PARTIAL left out: it is answered as every other state
\* that does not advance
polish_feedback_no_partial(state, advance, ai_feedback, character) ==
    LET char_name == CharName(character)
    IN IF advance /\ state = "ACCEPTABLE" THEN
           IF ai_feedback # << >>
           THEN << "Vadia! " >> \o ai_feedback \o << " Agge vadh, bas eh gall yaad rakh..." >>
           ELSE << char_name, ": Shabaash! Sahi jawab. Agge vadh." >>
       ELSE IF advance /\ state = "PERFECT" THEN
           << char_name, ": Bilkul sahi! Shabaash!" >>
       ELSE IF ~advance THEN
           IF ai_feedback # << >>
           THEN << char_name, ": " >> \o ai_feedback
           ELSE << char_name, ": Dubara try karo ji." >>
       ELSE << char_name, ": Sahi jawab check karo ji." >>

polish_feedback(state, advance, ai_feedback, character) ==
    LET char_name == CharName(character)
    IN IF advance /\ state = "ACCEPTABLE" THEN
           IF ai_feedback # << >>
           THEN << "Vadia! " >> \o ai_feedback \o << " Agge vadh, bas eh gall yaad rakh..." >>
           ELSE << char_name, ": Shabaash! Sahi jawab. Agge vadh." >>
       ELSE IF advance /\ state = "PERFECT" THEN
           << char_name, ": Bilkul sahi! Shabaash!" >>
       ELSE IF ~advance /\ state = "PARTIAL" THEN
           IF ai_feedback # << >>
           THEN << char_name, ": " >> \o ai_feedback \o << " Thoda aur try kar." >>
           ELSE << char_name, ": Thoda aur sahi banake dubara try karo ji." >>
       ELSE IF ~advance THEN
           IF ai_feedback # << >>
           THEN << char_name, ": " >> \o ai_feedback
           ELSE << char_name, ": Dubara try karo ji." >>
       ELSE << char_name, ": Sahi jawab check karo ji." >>

-----------------------------------------------------------------------------
(* The inputs of the evaluations *)

\* named texts
A1 == << "a" >>
B1 == << "b" >>
A_B == << "a", " ", "b" >>
A_A == << "a", " ", "a" >>
A_A_A == << "a", " ", "a", " ", "a" >>
A4 == << "a", " ", "a", " ", "a", " ", "a" >>
B_A_B == << "b", " ", "a", " ", "b" >>
B_A_B_B == << "b", " ", "a", " ", "b", " ", "b" >>
AA_A == << "a", "a", " ", "a" >>
A_AA_A == << "a", " ", "a", "a", " ", "a" >>
A6 == << "a", " ", "a", " ", "a", " ", "a", " ", "a", " ", "a" >>
A7 == << "a", " ", "a", " ", "a", " ", "a", " ", "a", " ", "a", " ", "a" >>
A12 == << "a", " ", "a", " ", "a", " ", "a", " ", "a", " ", "a", " ", "a", " ", "a", " ", "a", " ", "a", " ", "a", " ", "a" >>
BANG == << "!" >>
UPPER == << "A", " ", "a", "!", " ", "a" >>

RECURSIVE SeqsUpTo(_, _)
SeqsUpTo(S, n) ==
    IF n = 0 THEN { << >> }
    ELSE LET shorter == SeqsUpTo(S, n - 1)
         IN shorter \cup { Append(t, c) : t \in { u \in shorter : Len(u) = n - 1 }, c \in S }

\* every answer of at most MaxLen characters, and the answers that reach the
\* thresholds of get_thresholds exactly
Answers ==
    SeqsUpTo({"a", "b", " ", "!"}, MaxLen)
    \cup { A_A, A_A_A, UPPER, AA_A, A6 }

ExpectedLists ==
    { << >>, << A1 >>, << A_B >>, << A_A_A >>, << A4 >>, << B_A_B >>,
      << B_A_B_B >>, << A_AA_A >>, << A7 >>, << A12 >>, << BANG >>,
      << B1, A_A_A >> }

LessonTypes == {"mcq", "text", "translation", "multiple-choice"}

\* "" is a character_id that is None or empty
CharacterIds == {"", "jaspreet", "anon", "ghost"}

\* the completion responses of Spec
Responses ==
    { << "PERFECT", "NL", "theek" >>, << "acceptable", "NL", "theek" >>,
      << "Partial", "NL", "theek" >>, << "wrong", "NL", "theek" >>,
      << "PERFECT" >>, << "theek", "NL", "theek" >>, << >> }

\* the completion responses of SpecAI: every response of at most MaxRespLen atoms
ResponseAtoms == {"PERFECT", "acceptable", "Partial", "wrong", "theek", " ", "NL"}
AllResponses == SeqsUpTo(ResponseAtoms, MaxRespLen)

-----------------------------------------------------------------------------
(* evaluate_answer as a state machine: the coroutine defined at lines      *)
(* 236-304 (the class body later binds the same name to a synchronous      *)
(* wrapper, line 362).  One evaluation runs at a time; it suspends at its  *)
(* awaits: the persona lookup and the completion call.  Of the prompt built *)
(* at lines 132-173 the state keeps the conversation lines (lines 141-153); *)
(* the rest of the prompt does not change the control flow for inputs of   *)
(* the declared types.  An exception of a collaborator is an Exception     *)
(* (the class the handler of line 197 catches).                            *)

VARIABLES
    aiAvailable,           \* AI_AVAILABLE: the import of ai_service succeeded
    pc,                    \* idle, await_load, await_gemini, returned, raised
    user_answer,
    correct_answers_list,
    lesson_type,
    character_id,
    heuristic,             \* the local heuristic, NoFloat before it is computed
    path,                  \* none, empty, pass, fail, ai
    character,             \* the local character
    ai_response,           \* what the completion call gave
    result,                \* the EvaluationResult returned
    score_calls,           \* calls of heuristic_score in this evaluation
    lookup_calls,          \* calls of ai_load_character in this evaluation
    completion_calls,      \* calls of ai_call_gemini in this evaluation
    conversation_history,  \* SimplifiedLessonService.conversation_history
    call,                  \* the validate_answer calls in progress
    progress,              \* the collection user_lesson_progress
    messages,              \* the collection messages
    request,               \* the HTTP request being handled
    chat_history,          \* the list object the caller passed as chat_history
    passed,                \* what the caller's lists held when it called
    prompt,                \* the conversation lines of the prompt sent
    method,                \* the method of the pipeline a caller called last
                           \* on its own, "" when none
    args,                  \* the arguments of that call
    ret                    \* what that call returned

\* the variables of a call of one of the synchronous methods
direct == << method, args, ret >>

vars == << aiAvailable, pc, user_answer, correct_answers_list, lesson_type,
           character_id, heuristic, path, character, ai_response, result,
           score_calls, lookup_calls, completion_calls, chat_history, passed,
           prompt, method, args, ret,
           conversation_history, call, progress, messages, request >>

\* the variables of the lesson service and of the HTTP handlers
service == << conversation_history, call >>
api == << progress, messages, request >>

\* a float that is None
NoFloat == [num |-> 0, den |-> 0, dev |-> 0]

NoResult == [state |-> "", advance |-> FALSE, feedback |-> << >>, confidence |-> NoFloat]

\* kind: none (no call answered), text, missing (None returned), raised
NoResponse == [kind |-> "none", text |-> << >>]

\* a key a dict does not hold
Missing == "MISSING"

\* The exchanges of a history given as chat_history.  The lesson service
\* stores user_answer and ai_feedback (simplified_lesson_service.py lines
\* 190-194), the chat stores user_message and ai_message_roman
\* (ai_service.py lines 108-118).
Exchanges ==
    { [user_answer |-> "q1", user_message |-> Missing,
       ai_feedback |-> "f1", ai_message_roman |-> Missing],
      [user_answer |-> "q2", user_message |-> Missing,
       ai_feedback |-> "", ai_message_roman |-> Missing],
      [user_answer |-> Missing, user_message |-> "q3",
       ai_feedback |-> Missing, ai_message_roman |-> "f3"],
      [user_answer |-> "", user_message |-> "q4",
       ai_feedback |-> "f4", ai_message_roman |-> Missing],
      [user_answer |-> "q5", user_message |-> Missing,
       ai_feedback |-> "f5", ai_message_roman |-> Missing] }

Histories == SeqsUpTo(Exchanges, MaxHistory)

\* line 144: the 3 of [-3:]
RecentWindow == 3

\* list[-n:]
LastEntries(list, n) == SubSeq(list, Max({1, Len(list) - n + 1}), Len(list))

\* history[:3] in place of history[-3:]
recent_exchanges_oldest(history) ==
    SubSeq(history, 1, Min({Len(history), RecentWindow}))

\* line 144: context['chat_history'][-3:]
recent_exchanges(history) == LastEntries(history, RecentWindow)

\* del history[:-3]: the list of the caller cut down to the window
SliceInPlace(history) ==
    [source |-> recent_exchanges(history), slice |-> recent_exchanges(history)]

\* line 144: a slice is a new list; source is what the sliced list holds
\* afterwards
Slice(history) == [source |-> history, slice |-> recent_exchanges(history)]

\* line 147: exchange.get('user_answer', exchange.get('user_message', ''))
user_msg(exchange) ==
    IF exchange.user_answer # Missing THEN exchange.user_answer
    ELSE IF exchange.user_message # Missing THEN exchange.user_message
    ELSE ""

\* line 148: exchange.get('ai_feedback', exchange.get('ai_message_roman', ''))
ai_msg(exchange) ==
    IF exchange.ai_feedback # Missing THEN exchange.ai_feedback
    ELSE IF exchange.ai_message_roman # Missing THEN exchange.ai_message_roman
    ELSE ""

\* lines 145-151: a line is << speaker, message >>
RECURSIVE conversation_lines(_, _)
conversation_lines(recent, name) ==
    IF recent = << >> THEN << >>
    ELSE LET exchange == Head(recent)
         IN (IF user_msg(exchange) # "" /\ ai_msg(exchange) # ""
             THEN << << "Student", user_msg(exchange) >>, << name, ai_msg(exchange) >> >>
             ELSE << >>)
            \o conversation_lines(Tail(recent), name)

\* The ids of the learners and of the characters that have lessons, as
\* sequences of characters.
UserIds == { << "a" >>, << "a", "_", "b" >> }
LessonCharacterIds == { << "c" >>, << "b", "_", "c" >> }

\* the validate_answer calls that may be in progress together
Callers == {1, 2}

\* no keyword arguments given to evaluate_answer_async
NotHanded ==
    [given |-> FALSE, user_answer |-> << >>, correct_answers_list |-> << >>,
     character_id |-> << >>, conversation_history |-> << >>, lesson_type |-> ""]

\* no dict returned by validate_answer
NoServiceResult ==
    [built |-> FALSE, valid |-> FALSE, advance |-> FALSE, feedback |-> << >>,
     retry |-> FALSE]

\* a validate_answer call that is not in progress.  pc: idle, await_lesson,
\* await_character, await_gemini, returned, raised
NoCall ==
    [pc |-> "idle", current_lesson_index |-> 0, current_step_index |-> 0,
     character_id |-> << >>, user_answer |-> << >>, user_id |-> << >>,
     conversation_history |-> << >>, handed |-> NotHanded, exception |-> "",
     result |-> NoServiceResult]

\* no document of the pair in user_lesson_progress
NoProgress ==
    [started |-> FALSE, current_lesson_index |-> 0, current_step_index |-> 0,
     completed |-> FALSE]

\* no request being handled.  pc: idle, await_character, await_history,
\* await_gemini, await_translate, await_insert, done; lookup: none,
\* returned, raised (how load_character answered)
NoRequest ==
    [handler |-> "", pc |-> "idle", user_id |-> << >>, character_id |-> << >>,
     answer |-> << >>, persona_id |-> "", lookup |-> "none", character |-> None,
     reply |-> << >>, status |-> 0, completion_calls |-> 0, inserted |-> 0]

NoLists == [correct_answers_list |-> << >>, chat_history |-> << >>]

NoPrompt == [sent |-> FALSE, lines |-> << >>]

Init ==
    /\ aiAvailable \in BOOLEAN
    /\ pc = "idle"
    /\ user_answer = << >>
    /\ correct_answers_list = << >>
    /\ lesson_type = ""
    /\ character_id = ""
    /\ heuristic = NoFloat
    /\ path = "none"
    /\ character = None
    /\ ai_response = NoResponse
    /\ result = NoResult
    /\ score_calls = 0
    /\ lookup_calls = 0
    /\ completion_calls = 0
    /\ chat_history = << >>
    /\ passed = NoLists
    /\ prompt = NoPrompt
    /\ method = ""
    /\ args = << >>
    /\ ret = << >>
    /\ conversation_history = [key \in {} |-> << >>]
    /\ call = [p \in Callers |-> NoCall]
    /\ progress = [pair \in UserIds \X LessonCharacterIds |-> NoProgress]
    /\ messages = << >>
    /\ request = NoRequest

\* the emptiness test without strip()
IsEmptyAnswerNoStrip(answer) == answer = << >>

\* line 249: not user_answer.strip()
IsEmptyAnswer(answer) == Strip(answer) = << >>

\* > in place of >=
IsFastPassStrict(h, thresholds) == FloatLess(Hundredths(thresholds.auto_pass), h)

\* line 260: heuristic >= thresholds.auto_pass
IsFastPass(h, thresholds) == ~FloatLess(h, Hundredths(thresholds.auto_pass))

\* <= in place of <
IsFastFailInclusive(h, thresholds) == ~FloatLess(Hundredths(thresholds.ai_zone_low), h)

\* line 271: heuristic < thresholds.ai_zone_low
IsFastFail(h, thresholds) == FloatLess(h, Hundredths(thresholds.ai_zone_low))

\* lines 260, 271, 281: which of the three paths a score takes
PathOf(h, thresholds) ==
    IF IsFastPass(h, thresholds) THEN "pass"
    ELSE IF IsFastFail(h, thresholds) THEN "fail"
    ELSE "ai"

\* PARTIAL accepted as well
AdvanceAcceptsPartial(state, thresholds) ==
    state \in thresholds.accept_states \cup {"PARTIAL"}

\* the accept states of the other lesson types used for every type
AdvanceIgnoresType(state, thresholds) == state \in {"PERFECT", "ACCEPTABLE"}

\* line 294: state in thresholds.accept_states
Advance(state, thresholds) == state \in thresholds.accept_states

\* lines 250-254
EmptyResult ==
    [state |-> "WRONG", advance |-> FALSE, feedback |-> << "Jawab likho ji." >>,
     confidence |-> NoFloat]

\* lines 262-268
FastPassResult(h, ch) ==
    [state |-> "PERFECT", advance |-> TRUE,
     feedback |-> polish_feedback("PERFECT", TRUE, << >>, ch), confidence |-> h]

\* the fast fail without its confidence
FastFailResultNoConfidence(h, ch) ==
    [state |-> "WRONG", advance |-> FALSE,
     feedback |-> polish_feedback("WRONG", FALSE, << >>, ch), confidence |-> NoFloat]

\* lines 273-279
FastFailResult(h, ch) ==
    [state |-> "WRONG", advance |-> FALSE,
     feedback |-> polish_feedback("WRONG", FALSE, << >>, ch), confidence |-> h]

\* the state of the fast pass copied into the AI path
AIResultFixedState(evaluated, h, lt, ch) ==
    LET advance == Advance(evaluated.state, get_thresholds(lt))
    IN [state |-> IF advance THEN "PERFECT" ELSE "WRONG", advance |-> advance,
        feedback |-> polish_feedback(evaluated.state, advance, evaluated.feedback, ch),
        confidence |-> h]

\* lines 293-304: the result built from what ai_evaluate returned
AIResult(evaluated, h, lt, ch) ==
    LET advance == Advance(evaluated.state, get_thresholds(lt))
    IN [state |-> evaluated.state, advance |-> advance,
        feedback |-> polish_feedback(evaluated.state, advance, evaluated.feedback, ch),
        confidence |-> h]

Return(r) == pc' = "returned" /\ result' = r

\* lines 262-291 once the character of the path p is known: the fast paths
\* return; the AI path returns the fallback when no completion call can be
\* made (lines 125-130) and else suspends in ai_call_gemini (line 175)
AfterCharacter(p, h, lt, ch, history) ==
    IF p = "pass" THEN
        /\ Return(FastPassResult(h, ch))
        /\ chat_history' = history
        /\ UNCHANGED << ai_response, completion_calls, prompt >>
    ELSE IF p = "fail" THEN
        /\ Return(FastFailResult(h, ch))
        /\ chat_history' = history
        /\ UNCHANGED << ai_response, completion_calls, prompt >>
    ELSE IF ~aiAvailable THEN
        /\ Return(AIResult(Fallback(ch), h, lt, ch))
        /\ chat_history' = history
        /\ UNCHANGED << ai_response, completion_calls, prompt >>
    ELSE
        /\ pc' = "await_gemini"
        /\ completion_calls' = completion_calls + 1
        /\ chat_history' = Slice(history).source
        /\ prompt' = [sent |-> TRUE,
                      lines |-> conversation_lines(Slice(history).slice, CharName(ch))]
        /\ UNCHANGED << ai_response, result >>

\* lines 249-291: evaluate_answer from its call to its first await or its
\* return; history is the list passed as chat_history
Start(answer, expected, lt, cid, history) ==
    /\ user_answer' = answer
    /\ correct_answers_list' = expected
    /\ lesson_type' = lt
    /\ character_id' = cid
    /\ passed' = [correct_answers_list |-> expected, chat_history |-> history]
    /\ IF IsEmptyAnswer(answer) THEN
           /\ path' = "empty"
           /\ Return(EmptyResult)
           /\ chat_history' = history
           /\ UNCHANGED << heuristic, character, ai_response, score_calls,
                           lookup_calls, completion_calls, prompt >>
       ELSE
           LET h == heuristic_score(answer, expected)
               p == PathOf(h, get_thresholds(lt))
           IN /\ heuristic' = h
              /\ score_calls' = score_calls + 1
              /\ path' = p
              /\ IF cid # "" /\ aiAvailable THEN
                     \* character_id and self.ai_load_character: the lookup is awaited
                     /\ pc' = "await_load"
                     /\ lookup_calls' = lookup_calls + 1
                     /\ chat_history' = history
                     /\ UNCHANGED << character, ai_response, result, completion_calls,
                                     prompt >>
                 ELSE
                     /\ AfterCharacter(p, h, lt, None, history)
                     /\ UNCHANGED << character, lookup_calls >>
    /\ UNCHANGED aiAvailable

\* evaluate_answer is called without chat_history (None, read as [] at line
\* 287) and runs to its first await or its return
Call(answer, expected, lt, cid) ==
    /\ pc = "idle"
    /\ Start(answer, expected, lt, cid, << >>)
    /\ UNCHANGED << direct, service, api >>

\* evaluate_answer is called with a history
CallWithHistory(answer, expected, lt, cid, history) ==
    /\ pc = "idle"
    /\ Start(answer, expected, lt, cid, history)
    /\ UNCHANGED << direct, service, api >>

\* load_character returns the dict of the id, or None
LoadCharacterReturns ==
    /\ pc = "await_load"
    /\ character' = load_character(character_id)
    /\ AfterCharacter(path, heuristic, lesson_type, load_character(character_id),
                      chat_history)
    /\ UNCHANGED << aiAvailable, user_answer, correct_answers_list, lesson_type,
                    character_id, heuristic, path, score_calls, lookup_calls, passed >>
    /\ UNCHANGED << direct, service, api >>

\* load_character raises (the file cannot be opened or parsed): no handler
\* encloses lines 261, 272, 282, the exception leaves evaluate_answer
LoadCharacterRaises ==
    /\ pc = "await_load"
    /\ pc' = "raised"
    /\ UNCHANGED << aiAvailable, user_answer, correct_answers_list, lesson_type,
                    character_id, heuristic, path, character, ai_response, result,
                    score_calls, lookup_calls, completion_calls, chat_history,
                    passed, prompt >>
    /\ UNCHANGED << direct, service, api >>

\* the rest of evaluate_answer once ai_evaluate has its (state, feedback)
FinishAI(response, evaluated) ==
    /\ pc = "await_gemini"
    /\ ai_response' = response
    /\ Return(AIResult(evaluated, heuristic, lesson_type, character))
    /\ UNCHANGED << aiAvailable, user_answer, correct_answers_list, lesson_type,
                    character_id, heuristic, path, character, score_calls,
                    lookup_calls, completion_calls, chat_history, passed, prompt >>
    /\ UNCHANGED << direct, service, api >>

\* the completion call returns a text
GeminiReturns(text) ==
    FinishAI([kind |-> "text", text |-> text], ParseResponse(text))

\* the completion call returns None: ai_response.strip() raises inside the
\* try block, the handler of lines 197-203 answers
GeminiReturnsNone ==
    FinishAI([kind |-> "missing", text |-> << >>], Fallback(character))

\* the completion call raises: lines 197-203
GeminiRaises ==
    FinishAI([kind |-> "raised", text |-> << >>], Fallback(character))

\* the caller has its result or its exception; the next evaluation may start
Reset ==
    /\ pc \in {"returned", "raised"}
    /\ pc' = "idle"
    /\ user_answer' = << >>
    /\ correct_answers_list' = << >>
    /\ lesson_type' = ""
    /\ character_id' = ""
    /\ heuristic' = NoFloat
    /\ path' = "none"
    /\ character' = None
    /\ ai_response' = NoResponse
    /\ result' = NoResult
    /\ score_calls' = 0
    /\ lookup_calls' = 0
    /\ completion_calls' = 0
    /\ chat_history' = << >>
    /\ passed' = NoLists
    /\ prompt' = NoPrompt
    /\ UNCHANGED aiAvailable
    /\ UNCHANGED << direct, service, api >>

Next ==
    \/ \E answer \in Answers, expected \in ExpectedLists,
          lt \in LessonTypes, cid \in CharacterIds : Call(answer, expected, lt, cid)
    \/ LoadCharacterReturns
    \/ LoadCharacterRaises
    \/ \E text \in Responses : GeminiReturns(text)
    \/ GeminiReturnsNone
    \/ GeminiRaises
    \/ Reset

Spec == Init /\ [][Next]_vars

\* The evaluations of two answers under every completion response of at most
\* MaxRespLen atoms.
ProbeAnswers == { A_A, A_A_A }
ProbeLists == { << A4 >> }

NextAI ==
    \/ \E answer \in ProbeAnswers, expected \in ProbeLists,
          lt \in LessonTypes, cid \in {"", "jaspreet"} : Call(answer, expected, lt, cid)
    \/ LoadCharacterReturns
    \/ LoadCharacterRaises
    \/ \E text \in AllResponses : GeminiReturns(text)
    \/ GeminiReturnsNone
    \/ GeminiRaises
    \/ Reset

SpecAI == Init /\ [][NextAI]_vars

\* The collaborators answer every call made to them, with a value or with an
\* exception (the completion collaborator bounds its own latency); the caller
\* is free never to call again.
FairSpec ==
    /\ Spec
    /\ WF_vars(LoadCharacterReturns \/ LoadCharacterRaises)
    /\ WF_vars((\E text \in Responses : GeminiReturns(text)) \/ GeminiReturnsNone \/ GeminiRaises)

\* The evaluations of a learner whose completion collaborator fails at every
\* call (it raises or gives no text); the collaborators answer every call.
RetryAnswers == { A1, B1, A_A, A_A_A, AA_A }

NextFailing ==
    \/ \E answer \in RetryAnswers, expected \in ExpectedLists,
          lt \in LessonTypes, cid \in CharacterIds : Call(answer, expected, lt, cid)
    \/ LoadCharacterReturns
    \/ LoadCharacterRaises
    \/ GeminiReturnsNone
    \/ GeminiRaises
    \/ Reset

FailingSpec ==
    /\ Init /\ [][NextFailing]_vars
    /\ WF_vars(LoadCharacterReturns \/ LoadCharacterRaises)
    /\ WF_vars(GeminiReturnsNone \/ GeminiRaises)

\* The evaluations of an answer that matches and of an ambiguous one, called
\* with every history of at most MaxHistory exchanges.
HistoryAnswers == { A_A, A4 }
HistoryResponses == { << "PERFECT", "NL", "theek" >>, << "wrong", "NL", "theek" >> }

NextHistory ==
    \/ \E answer \in HistoryAnswers, expected \in ProbeLists,
          cid \in {"", "jaspreet"}, history \in Histories :
          CallWithHistory(answer, expected, "text", cid, history)
    \/ LoadCharacterReturns
    \/ LoadCharacterRaises
    \/ \E text \in HistoryResponses : GeminiReturns(text)
    \/ GeminiReturnsNone
    \/ GeminiRaises
    \/ Reset

SpecHistory == Init /\ [][NextHistory]_vars

-----------------------------------------------------------------------------
(* The synchronous methods of the pipeline called on their own: each is a  *)
(* public method of EvaluationPipeline and a pure function of its          *)
(* arguments.  A call records the method, its arguments and what it        *)
(* returned; it does not touch the evaluation in progress.                 *)

\* the texts given to normalize_text
NormChars == {"a", "A", "_", "!", " ", "NL", "IDOT", "SIGN"}
Texts == SeqsUpTo(NormChars, MaxTextLen)

\* the lesson-type tags given to get_thresholds; "" is a missing tag
LessonTags == LessonTypes \cup {"text-input", "MCQ", "info", ""}

\* the answers and the expected-answer lists given to heuristic_score
ScoreAnswers ==
    { << >>, A1, << "A" >>, B1, A_B, A_A, AA_A, A_A_A, BANG, << "!", "!" >>, UPPER }
ScorePool == { A1, A_B, A_A_A, BANG }
ScoreLists == SeqsUpTo(ScorePool, MaxExpected)

\* the AI texts and the personas given to polish_feedback
AiTexts == { << >>, << "theek" >>, << "theek", " ", "hai" >> }
Personas == { None } \cup { Characters[id] : id \in DOMAIN Characters }

\* the variables of the evaluation in progress
evaluation ==
    << aiAvailable, pc, user_answer, correct_answers_list, lesson_type,
       character_id, heuristic, path, character, ai_response, result,
       score_calls, lookup_calls, completion_calls, chat_history, passed, prompt >>

CallNormalizeText(text) ==
    /\ method = ""
    /\ method' = "normalize_text"
    /\ args' = [text |-> text]
    /\ ret' = normalize_text(text)
    /\ UNCHANGED << evaluation, service, api >>

CallGetThresholds(lt) ==
    /\ method = ""
    /\ method' = "get_thresholds"
    /\ args' = [lesson_type |-> lt]
    /\ ret' = get_thresholds(lt)
    /\ UNCHANGED << evaluation, service, api >>

CallHeuristicScore(answer, expected) ==
    /\ method = ""
    /\ method' = "heuristic_score"
    /\ args' = [user_answer |-> answer, correct_answers |-> expected]
    /\ ret' = heuristic_score(answer, expected)
    /\ UNCHANGED << evaluation, service, api >>

CallPolishFeedback(state, advance, ai_feedback, ch) ==
    /\ method = ""
    /\ method' = "polish_feedback"
    /\ args' = [state |-> state, advance |-> advance, ai_feedback |-> ai_feedback,
                character |-> ch]
    /\ ret' = polish_feedback(state, advance, ai_feedback, ch)
    /\ UNCHANGED << evaluation, service, api >>

\* the caller has the value; the next call may start
Done ==
    /\ method # ""
    /\ method' = ""
    /\ args' = << >>
    /\ ret' = << >>
    /\ UNCHANGED << evaluation, service, api >>

NextMethods ==
    \/ \E text \in Texts : CallNormalizeText(text)
    \/ \E lt \in LessonTags : CallGetThresholds(lt)
    \/ \E answer \in ScoreAnswers, expected \in ScoreLists :
          CallHeuristicScore(answer, expected)
    \/ \E state \in EvaluationState, advance \in BOOLEAN,
          ai_feedback \in AiTexts, ch \in Personas :
          CallPolishFeedback(state, advance, ai_feedback, ch)
    \/ Done

SpecMethods == Init /\ [][NextMethods]_vars

-----------------------------------------------------------------------------
(* The lesson service (app/services/simplified_lesson_service.py): the     *)
(* calls of validate_answer on one SimplifiedLessonService object.  A call *)
(* suspends at its awaits and runs alone between two of them (one event    *)
(* loop).  The emotion of a result is computed from the feedback text      *)
(* alone (lines 159, 197-199, 213-225) and is not part of the state; an    *)
(* entry of the history keeps, in place of its timestamp, the pair that    *)
(* appended it.                                                            *)

\* the character ids given to validate_answer; "x" has no lessons
ServiceCharacterIds == LessonCharacterIds \cup { << "x" >> }

\* the steps of a lesson: lessonType, correctAnswers and
\* characterMessage.romanPunjabi ("QUOTE" is the character ")
OpenStep ==
    [lessonType |-> "text", correctAnswers |-> << >>, romanPunjabi |-> << "l" >>]
McqStep ==
    [lessonType |-> "mcq", correctAnswers |-> << A1 >>, romanPunjabi |-> << >>]
ChoiceStep ==
    [lessonType |-> "multiple-choice", correctAnswers |-> << A1 >>,
     romanPunjabi |-> << >>]
QuotedStep ==
    [lessonType |-> "text-input", correctAnswers |-> << >>,
     romanPunjabi |-> << "l", " ", "QUOTE", "a", "QUOTE" >>]
TextStep ==
    [lessonType |-> "text", correctAnswers |-> << A1 >>, romanPunjabi |-> << >>]

\* the lessons of a character that has lessons
Curriculum ==
    << [found |-> TRUE, steps |-> << OpenStep, McqStep, ChoiceStep, QuotedStep, TextStep >>] >>

\* get_lesson_by_index returns None
NoLesson == [found |-> FALSE, steps |-> << >>]

\* lines 74-82
get_lesson_by_index(lesson_index, cid) ==
    IF cid \notin LessonCharacterIds THEN NoLesson
    ELSE IF lesson_index >= Len(Curriculum) THEN NoLesson
    ELSE Curriculum[lesson_index + 1]

\* the (lesson index, step index) pairs given to validate_answer
Positions == { << 0, s >> : s \in 0..Len(Curriculum[1].steps) } \cup { << 1, 0 >> }

\* the answers given to validate_answer
ServiceAnswers == { << " " >>, A1 }

\* the texts the completion call gives to generate_ai_feedback
FeedbackTexts == { << "theek" >>, << " ", "theek" >>, << " " >> }

\* line 141: f"{user_id}_{character_id}"
conversation_key(uid, cid) == uid \o << "_" >> \o cid

\* line 145: the 3 of [-3:]
ServiceWindow == 3

\* line 151: re.search(r'"([^"]+)"', character_message), group 1 of the
\* leftmost match; << >> when nothing matches
QuotedText(message) ==
    LET opens == { i \in 1..Len(message) :
                      /\ message[i] = "QUOTE"
                      /\ i + 1 <= Len(message)
                      /\ message[i + 1] # "QUOTE"
                      /\ \E j \in (i + 2)..Len(message) : message[j] = "QUOTE" }
    IN IF opens = {} THEN << >>
       ELSE LET i == Min(opens)
                j == Min({ k \in (i + 2)..Len(message) : message[k] = "QUOTE" })
            IN SubSeq(message, i + 1, j - 1)

\* lines 134, 148-154: the correct answers of a step, with the quoted text
\* of the message for a text step that lists none
correct_answers_of(step) ==
    IF step.lessonType \in {"text", "text-input"} /\ step.correctAnswers = << >>
       /\ QuotedText(step.romanPunjabi) # << >>
    THEN << QuotedText(step.romanPunjabi) >>
    ELSE step.correctAnswers

\* The parameters, besides self, of the two functions the class body of
\* EvaluationPipeline binds to the name evaluate_answer: the coroutine of
\* evaluation_pipeline.py lines 236-244 and the wrapper of lines 362-368.
CoroutineParameters ==
    {"user_answer", "correct_answers_list", "question_text", "lesson_type",
     "character_id", "chat_history"}
WrapperParameters ==
    {"user_answer", "correct_answers_list", "question_text", "character_id"}

\* the attribute evaluate_answer of the class: the def of line 362 runs after
\* the def of line 236 and replaces it
evaluate_answer_parameters == WrapperParameters

\* lines 329-336: the keywords of the call self.evaluate_answer(...)
CallKeywords ==
    {"user_answer", "correct_answers_list", "question_text", "lesson_type",
     "character_id", "chat_history"}

\* a call with a keyword that is no parameter of the function raises
\* TypeError
Binds(keywords, parameters) == keywords \subseteq parameters

\* evaluate_answer_async (evaluation_pipeline.py lines 308-360) up to its
\* call of self.evaluate_answer: the lesson type it hands over and whether
\* the call raises (the handler of lines 356-360 raises again)
evaluate_answer_async(kwargs) ==
    [lesson_type |-> IF kwargs.lesson_type = "" THEN "text" ELSE kwargs.lesson_type,
     chat_history |-> kwargs.conversation_history,
     raised |-> ~Binds(CallKeywords, evaluate_answer_parameters),
     exception |-> IF Binds(CallKeywords, evaluate_answer_parameters) THEN ""
                   ELSE "TypeError"]

\* line 126
LessonNotFound ==
    [built |-> TRUE, valid |-> FALSE, advance |-> FALSE,
     feedback |-> << "Lesson not found" >>, retry |-> FALSE]

\* line 130
LessonCompleted ==
    [built |-> TRUE, valid |-> FALSE, advance |-> FALSE,
     feedback |-> << "Lesson completed" >>, retry |-> FALSE]

\* line 138
EmptyAnswerResult ==
    [built |-> TRUE, valid |-> FALSE, advance |-> FALSE, feedback |-> << >>,
     retry |-> FALSE]

\* lines 169-175
OpenEndedResult(ai_feedback) ==
    [built |-> TRUE, valid |-> TRUE, advance |-> TRUE, feedback |-> ai_feedback,
     retry |-> FALSE]

\* lines 290-305: the feedback of generate_ai_feedback when the completion
\* call raises.  The step lists no correct answers on this path, so the loop
\* of lines 299-301 has nothing to compare.
fallback_feedback(step) ==
    IF step.lessonType \in {"mcq", "multiple-choice"}
    THEN << "Try karo ji. Sahi options mein se ik choose karo." >>
    ELSE << "Bahut accha try hai. Thoda aur practice karo ji." >>

\* lines 142-143: the history with the key, created empty when missing
WithKey(history, key) ==
    [k \in DOMAIN history \cup {key} |->
        IF k \in DOMAIN history THEN history[k] ELSE << >>]

\* lines 163-167 and 190-194: self.conversation_history[key].append(entry)
Appended(history, key, entry) ==
    [history EXCEPT ![key] = Append(history[key], entry)]

\* the entries stored under all keys
RECURSIVE Stored(_, _)
Stored(history, keys) ==
    IF keys = {} THEN 0
    ELSE LET k == CHOOSE key \in keys : TRUE
         IN Len(history[k]) + Stored(history, keys \ {k})

InProgress == { p \in Callers : call[p].pc # "idle" }

\* the step of a call whose lesson and step exist
StepOf(c) ==
    get_lesson_by_index(c.current_lesson_index, c.character_id).steps[c.current_step_index + 1]

\* validate_answer is called and awaits get_lesson_by_index (line 124)
ValidateAnswer(p, position, cid, answer, uid) ==
    /\ call[p].pc = "idle"
    /\ Stored(conversation_history, DOMAIN conversation_history)
          + Cardinality(InProgress) < MaxStored
    /\ call' = [call EXCEPT ![p] =
                   [NoCall EXCEPT !.pc = "await_lesson",
                                  !.current_lesson_index = position[1],
                                  !.current_step_index = position[2],
                                  !.character_id = cid,
                                  !.user_answer = answer,
                                  !.user_id = uid]]
    /\ UNCHANGED << conversation_history, evaluation, direct, api >>

\* lines 125-186: from the lesson to a return, to the await of
\* load_character in generate_ai_feedback (line 233), or to the exception of
\* evaluate_answer_async
LessonLoaded(p) ==
    /\ call[p].pc = "await_lesson"
    /\ LET c == call[p]
           lesson == get_lesson_by_index(c.current_lesson_index, c.character_id)
       IN IF ~lesson.found THEN
              /\ call' = [call EXCEPT ![p].pc = "returned", ![p].result = LessonNotFound]
              /\ UNCHANGED conversation_history
          ELSE IF c.current_step_index >= Len(lesson.steps) THEN
              /\ call' = [call EXCEPT ![p].pc = "returned", ![p].result = LessonCompleted]
              /\ UNCHANGED conversation_history
          ELSE IF IsEmptyAnswer(c.user_answer) THEN
              /\ call' = [call EXCEPT ![p].pc = "returned", ![p].result = EmptyAnswerResult]
              /\ UNCHANGED conversation_history
          ELSE
              LET step == lesson.steps[c.current_step_index + 1]
                  key == conversation_key(c.user_id, c.character_id)
                  history == WithKey(conversation_history, key)
                  recent == LastEntries(history[key], ServiceWindow)
                  correct_answers == correct_answers_of(step)
                  kwargs == [given |-> TRUE, user_answer |-> c.user_answer,
                             correct_answers_list |-> correct_answers,
                             character_id |-> c.character_id,
                             conversation_history |-> recent,
                             lesson_type |-> step.lessonType]
              IN /\ conversation_history' = history
                 /\ IF correct_answers = << >> THEN
                        call' = [call EXCEPT ![p].pc = "await_character",
                                             ![p].conversation_history = recent]
                    ELSE IF evaluate_answer_async(kwargs).raised THEN
                        \* no handler in validate_answer: line 179 raises
                        call' = [call EXCEPT
                                    ![p].pc = "raised",
                                    ![p].conversation_history = recent,
                                    ![p].handed = kwargs,
                                    ![p].exception = evaluate_answer_async(kwargs).exception]
                    ELSE
                        \* the call binds: the evaluation would be awaited
                        call' = [call EXCEPT ![p].pc = "await_evaluation",
                                             ![p].conversation_history = recent,
                                             ![p].handed = kwargs]
    /\ UNCHANGED << evaluation, direct, api >>

\* generate_ai_feedback: load_character returns (line 233), the prompt is
\* built and the completion call awaited (line 288)
FeedbackCharacterReturns(p) ==
    /\ call[p].pc = "await_character"
    /\ call' = [call EXCEPT ![p].pc = "await_gemini"]
    /\ UNCHANGED << conversation_history, evaluation, direct, api >>

\* load_character raises: line 233 is outside the try of line 287
FeedbackCharacterRaises(p) ==
    /\ call[p].pc = "await_character"
    /\ call' = [call EXCEPT ![p].pc = "raised", ![p].exception = "Exception"]
    /\ UNCHANGED << conversation_history, evaluation, direct, api >>

\* lines 158-175 once generate_ai_feedback has its text: the entry is
\* appended and the result returned
FeedbackDone(p, ai_feedback) ==
    LET c == call[p]
        key == conversation_key(c.user_id, c.character_id)
        entry == [user_answer |-> c.user_answer, ai_feedback |-> ai_feedback,
                  by |-> << c.user_id, c.character_id >>]
    IN /\ conversation_history' = Appended(conversation_history, key, entry)
       /\ call' = [call EXCEPT ![p].pc = "returned",
                               ![p].result = OpenEndedResult(ai_feedback)]

\* the completion call returns a text: line 289
FeedbackGeminiReturns(p, text) ==
    /\ call[p].pc = "await_gemini"
    /\ FeedbackDone(p, Strip(text))
    /\ UNCHANGED << evaluation, direct, api >>

\* the completion call raises: lines 290-305
FeedbackGeminiRaises(p) ==
    /\ call[p].pc = "await_gemini"
    /\ FeedbackDone(p, fallback_feedback(StepOf(call[p])))
    /\ UNCHANGED << evaluation, direct, api >>

\* the caller has its result or its exception
CallerDone(p) ==
    /\ call[p].pc \in {"returned", "raised"}
    /\ call' = [call EXCEPT ![p] = NoCall]
    /\ UNCHANGED << conversation_history, evaluation, direct, api >>

NextService ==
    \/ \E p \in Callers, position \in Positions, cid \in ServiceCharacterIds,
          answer \in ServiceAnswers, uid \in UserIds :
          ValidateAnswer(p, position, cid, answer, uid)
    \/ \E p \in Callers : LessonLoaded(p)
    \/ \E p \in Callers : FeedbackCharacterReturns(p)
    \/ \E p \in Callers : FeedbackCharacterRaises(p)
    \/ \E p \in Callers, text \in FeedbackTexts : FeedbackGeminiReturns(p, text)
    \/ \E p \in Callers : FeedbackGeminiRaises(p)
    \/ \E p \in Callers : CallerDone(p)

SpecService == Init /\ [][NextService]_vars

-----------------------------------------------------------------------------
(* The HTTP handlers of app/routers/lessons.py and app/routers/chat.py,    *)
(* one request at a time.  FastAPI builds the dependencies of a handler    *)
(* before it runs its body; an exception that is no HTTPException is       *)
(* answered with status 500.                                               *)

\* simplified_lesson_service.py line 51: the parameters of __init__ besides
\* self, none of them with a default
ServiceInitParameters == {"db"}

\* lessons.py line 18: SimplifiedLessonService() gives no argument
ServiceInitArguments == {}

\* lessons.py lines 17-18: the dependency of get_next and submit_answer; a
\* call that leaves a required parameter without argument raises TypeError
get_simplified_lesson_service ==
    IF ServiceInitParameters \subseteq ServiceInitArguments THEN "service" ELSE "TypeError"

\* simplified_lesson_service.py line 122: the parameters of validate_answer
\* besides self, all required
ValidateAnswerParameters ==
    << "current_lesson_index", "current_step_index", "character_id", "user_answer",
       "user_id" >>

\* lessons.py lines 112-114: the positional arguments of the call
ValidateAnswerArguments ==
    << "progress.current_lesson_index", "progress.current_step_index",
       "request.character_id", "request.answer" >>

\* progress_service.py lines 19-30
create_progress ==
    [started |-> TRUE, current_lesson_index |-> 0, current_step_index |-> 0,
     completed |-> FALSE]

\* the handler of chat.py lines 38-39 left out
StatusOfUnhandled(exception) == 500

\* chat.py lines 38-39 and the default of the framework
StatusOf(exception) == IF exception = "ValueError" THEN 404 ELSE 500

\* the answer of a handler of lessons.py for the pair
Handled(handler, uid, cid, answer, status) ==
    [NoRequest EXCEPT !.handler = handler, !.pc = "done", !.user_id = uid,
                      !.character_id = cid, !.answer = answer, !.status = status]

\* lessons.py lines 29-48: start_lesson
StartLesson(uid, cid) ==
    /\ request.pc = "idle"
    /\ progress' = [progress EXCEPT ![<< uid, cid >>] =
                       IF progress[<< uid, cid >>].started
                       THEN progress[<< uid, cid >>] ELSE create_progress]
    /\ request' = Handled("start_lesson", uid, cid, << >>, 200)
    /\ UNCHANGED << messages, evaluation, direct, service >>

\* lessons.py lines 50-94: get_next.  The dependency lesson_service raises
\* before the body runs; the body would answer 404 for a pair that has not
\* started and raise on interaction["type"], get_next_interaction being
\* called without await (line 65).
GetNext(uid, cid) ==
    /\ request.pc = "idle"
    /\ request' =
           Handled("get_next", uid, cid, << >>,
                   IF get_simplified_lesson_service = "TypeError" THEN 500
                   ELSE IF ~progress[<< uid, cid >>].started THEN 404
                   ELSE 500)
    /\ UNCHANGED << progress, messages, evaluation, direct, service >>

\* lessons.py lines 96-139: submit_answer.  The dependency lesson_service
\* raises before the body runs; the body would answer 404 for a pair that
\* has not started and raise TypeError at lines 112-114, validate_answer
\* being called with four of its five arguments (the handler of line 138
\* answers 500).  update_progress (lines 125-132) is never reached.
SubmitAnswer(uid, cid, answer) ==
    /\ request.pc = "idle"
    /\ request' =
           Handled("submit_answer", uid, cid, answer,
                   IF get_simplified_lesson_service = "TypeError" THEN 500
                   ELSE IF ~progress[<< uid, cid >>].started THEN 404
                   ELSE IF Len(ValidateAnswerArguments) < Len(ValidateAnswerParameters)
                   THEN 500
                   ELSE 200)
    /\ UNCHANGED << progress, messages, evaluation, direct, service >>

\* the texts the completion call gives to generate_reply
ReplyTexts == { << "hello" >>, << "hello", " " >> }

\* chat.py lines 13-36: chat_with calls generate_reply, which awaits
\* load_character (ai_service.py line 59)
ChatWith(cid) ==
    /\ request.pc = "idle"
    /\ Len(messages) < MaxMessages
    /\ request' = [NoRequest EXCEPT !.handler = "chat_with", !.pc = "await_character",
                                    !.persona_id = cid]
    /\ UNCHANGED << progress, messages, evaluation, direct, service >>

\* ai_service.py lines 59-64: the persona is known, or ValueError
ChatCharacterReturns ==
    /\ request.handler = "chat_with" /\ request.pc = "await_character"
    /\ LET found == load_character(request.persona_id)
       IN request' =
              IF ~found.present
              THEN [request EXCEPT !.pc = "done", !.lookup = "returned",
                                   !.status = StatusOf("ValueError")]
              ELSE [request EXCEPT !.pc = "await_history", !.lookup = "returned",
                                   !.character = found]
    /\ UNCHANGED << progress, messages, evaluation, direct, service >>

\* load_character raises (the file cannot be opened or parsed)
ChatCharacterRaises ==
    /\ request.handler = "chat_with" /\ request.pc = "await_character"
    /\ request' = [request EXCEPT !.pc = "done", !.lookup = "raised",
                                  !.status = StatusOf("OSError")]
    /\ UNCHANGED << progress, messages, evaluation, direct, service >>

\* ai_service.py lines 64-87: the history is read, the prompt built
\* (character['name'] raises KeyError for a persona without name) and the
\* completion call awaited
ChatHistoryReturns ==
    /\ request.handler = "chat_with" /\ request.pc = "await_history"
    /\ request' =
           IF ~request.character.has_name
           THEN [request EXCEPT !.pc = "done", !.status = StatusOf("KeyError")]
           ELSE [request EXCEPT !.pc = "await_gemini",
                                !.completion_calls = request.completion_calls + 1]
    /\ UNCHANGED << progress, messages, evaluation, direct, service >>

\* ai_service.py lines 87-95: the completion call returns; the two
\* translations, one completion call each, are awaited
ChatGeminiReturns(text) ==
    /\ request.handler = "chat_with" /\ request.pc = "await_gemini"
    /\ request' = [request EXCEPT !.pc = "await_translate", !.reply = text,
                                  !.completion_calls = request.completion_calls + 2]
    /\ UNCHANGED << progress, messages, evaluation, direct, service >>

\* the completion call raises
ChatGeminiRaises ==
    /\ request.handler = "chat_with" /\ request.pc = "await_gemini"
    /\ request' = [request EXCEPT !.pc = "done", !.status = StatusOf("Exception")]
    /\ UNCHANGED << progress, messages, evaluation, direct, service >>

\* ai_service.py lines 92-119: the translations return (translation_service
\* answers the text itself when its call fails), insert_one is awaited
ChatTranslated ==
    /\ request.handler = "chat_with" /\ request.pc = "await_translate"
    /\ request' = [request EXCEPT !.pc = "await_insert"]
    /\ UNCHANGED << progress, messages, evaluation, direct, service >>

\* ai_service.py lines 119-130: the message is stored and the reply returned
ChatInserted ==
    /\ request.handler = "chat_with" /\ request.pc = "await_insert"
    /\ messages' = Append(messages, [character_id |-> request.persona_id,
                                     ai_message_english |-> Strip(request.reply)])
    /\ request' = [request EXCEPT !.pc = "done", !.status = 200,
                                  !.inserted = request.inserted + 1]
    /\ UNCHANGED << progress, evaluation, direct, service >>

\* the response is sent
RequestDone ==
    /\ request.pc = "done"
    /\ request' = NoRequest
    /\ UNCHANGED << progress, messages, evaluation, direct, service >>

NextApi ==
    \/ \E uid \in UserIds, cid \in LessonCharacterIds : StartLesson(uid, cid)
    \/ \E uid \in UserIds, cid \in LessonCharacterIds : GetNext(uid, cid)
    \/ \E uid \in UserIds, cid \in LessonCharacterIds, answer \in ServiceAnswers :
          SubmitAnswer(uid, cid, answer)
    \/ \E cid \in CharacterIds \ {""} : ChatWith(cid)
    \/ ChatCharacterReturns
    \/ ChatCharacterRaises
    \/ ChatHistoryReturns
    \/ \E text \in ReplyTexts : ChatGeminiReturns(text)
    \/ ChatGeminiRaises
    \/ ChatTranslated
    \/ ChatInserted
    \/ RequestDone

SpecApi == Init /\ [][NextApi]_vars

-----------------------------------------------------------------------------
(* Properties *)

Returned == pc = "returned"

\* the evaluation computed a score (the answer was not empty)
Scored == heuristic # NoFloat

AutoPass == Hundredths(get_thresholds(lesson_type).auto_pass)
AiZoneLow == Hundredths(get_thresholds(lesson_type).ai_zone_low)

\* the score and the float y are the same double
SameFloat(x, y) == ~FloatLess(x, y) /\ ~FloatLess(y, x)

\* ai_zone_low <= score < auto_pass
Ambiguous == Scored /\ ~FloatLess(heuristic, AiZoneLow) /\ FloatLess(heuristic, AutoPass)

\* C1: in every returned EvaluationResult, advance is true exactly when the
\* state is one of the accept_states of the thresholds of the lesson type.
C1_AdvanceIffAccepted ==
    Returned =>
        (result.advance <=> result.state \in get_thresholds(lesson_type).accept_states)

\* an AI-path result of an mcq step whose state ACCEPTABLE does not advance
C1_Witness ==
    /\ Returned /\ path = "ai" /\ lesson_type = "mcq"
    /\ result.state = "ACCEPTABLE" /\ ~result.advance

\* C2: a score greater than or equal to auto_pass never leads to a completion
\* call, and the result returned for it is PERFECT with advance = true.
C2_FastPass ==
    (Scored /\ ~FloatLess(heuristic, AutoPass)) =>
        /\ completion_calls = 0
        /\ pc # "await_gemini"
        /\ Returned => (result.state = "PERFECT" /\ result.advance)

\* a score exactly equal to the auto_pass of mcq, returned as PERFECT
C2_Witness ==
    /\ Returned /\ lesson_type = "mcq" /\ SameFloat(heuristic, AutoPass)
    /\ result.state = "PERFECT" /\ completion_calls = 0

\* C3: a score strictly below ai_zone_low never leads to a completion call and
\* the result returned for it is WRONG with advance = false; a score exactly
\* equal to ai_zone_low takes the AI path.
C3_FastFail ==
    /\ (Scored /\ FloatLess(heuristic, AiZoneLow)) =>
           /\ completion_calls = 0
           /\ pc # "await_gemini"
           /\ Returned => (result.state = "WRONG" /\ ~result.advance)
    /\ (Scored /\ SameFloat(heuristic, AiZoneLow)) =>
           /\ path = "ai"
           /\ (aiAvailable /\ Returned) => completion_calls = 1

\* a score exactly equal to the ai_zone_low of text, decided by the completion
\* call
C3_Witness ==
    /\ Returned /\ lesson_type = "text" /\ SameFloat(heuristic, AiZoneLow)
    /\ completion_calls = 1 /\ result.state = "PARTIAL"

\* C4 as claimed: every result returned for a score in the ambiguous zone
\* comes with exactly one completion call and carries the state of the
\* response.
C4_Original ==
    (Returned /\ Ambiguous) =>
        /\ completion_calls = 1
        /\ ai_response.kind = "text" => result.state = ParseResponse(ai_response.text).state
        /\ result.advance <=> result.state \in get_thresholds(lesson_type).accept_states

\* C4 (amended): no evaluation makes more than one completion call.  A result
\* returned for a score in the ambiguous zone comes with exactly one
\* completion call when the completion collaborator is available, and its
\* state is the one parsed from the response, or ACCEPTABLE when the call
\* gave no text; when the collaborator is not available there is no call and
\* the state is ACCEPTABLE.  advance is decided from that state.
C4_OneCompletionCall ==
    /\ completion_calls <= 1
    /\ (Returned /\ Ambiguous) =>
        /\ completion_calls = (IF aiAvailable THEN 1 ELSE 0)
        /\ result.state = (IF ai_response.kind = "text"
                           THEN ParseResponse(ai_response.text).state
                           ELSE "ACCEPTABLE")
        /\ result.advance <=> result.state \in get_thresholds(lesson_type).accept_states

\* an ambiguous score classified PARTIAL by the one completion call
C4_Witness ==
    /\ Returned /\ Ambiguous /\ aiAvailable /\ completion_calls = 1
    /\ ai_response = [kind |-> "text", text |-> << "Partial", "NL", "theek" >>]
    /\ result.state = "PARTIAL" /\ ~result.advance

\* C5: an answer that is empty or only whitespace is answered at once with
\* WRONG, advance = false and the fixed message, with no score computed, no
\* persona lookup and no completion call.
C5_EmptyAnswer ==
    (pc # "idle" /\ Strip(user_answer) = << >>) =>
        /\ Returned
        /\ result = [state |-> "WRONG", advance |-> FALSE,
                     feedback |-> << "Jawab likho ji." >>, confidence |-> NoFloat]
        /\ score_calls = 0 /\ lookup_calls = 0 /\ completion_calls = 0

\* a whitespace-only answer with a persona id and expected answers
C5_Witness ==
    /\ Returned /\ user_answer = << " ", " " >> /\ character_id = "jaspreet"
    /\ correct_answers_list = << A_A_A >> /\ result.state = "WRONG"

\* the feedback is not the empty string
NonEmptyFeedback(feedback) == \E i \in 1..Len(feedback) : feedback[i] # ""

\* C6: when the completion call raises, evaluate_answer returns (it does not
\* raise) state ACCEPTABLE with a non-empty feedback, and the completion call
\* was made once.
C6_CompletionFailure ==
    ai_response.kind = "raised" =>
        /\ Returned
        /\ result.state = "ACCEPTABLE"
        /\ NonEmptyFeedback(result.feedback)
        /\ completion_calls = 1

\* the completion call raised during an mcq evaluation
C6_Witness ==
    /\ ai_response.kind = "raised" /\ Returned /\ lesson_type = "mcq"
    /\ result.state = "ACCEPTABLE" /\ ~result.advance

\* some expected answer has the normalized form of the answer
MatchesExpected ==
    \E i \in 1..Len(correct_answers_list) :
        normalize_text(correct_answers_list[i]) = normalize_text(user_answer)

One == [num |-> 1, den |-> 1, dev |-> 0]

FirstLine(text) == Upper(Strip(SplitLines(Strip(text))[1]))

\* the response has a line after its first line
HasSecondLine(text) == FirstNL(Strip(text), 1) # 0

NamesState(line) == Len(line) = 1 /\ line[1] \in EvaluationState

\* C8 as claimed: the state of the AI path is the state named by the first
\* line of the response, also when there is no further line, and ACCEPTABLE
\* when the first line names no state.
C8_Original ==
    (Returned /\ ai_response.kind = "text") =>
        result.state = (IF NamesState(FirstLine(ai_response.text))
                        THEN FirstLine(ai_response.text)[1] ELSE "ACCEPTABLE")

\* C8 (amended): the state of the AI path is the state named by the first
\* line of the response (case-insensitively) when the response has a further
\* line; it is ACCEPTABLE when the first line names no state or the response
\* is a single line.
C8_FirstLineState ==
    (Returned /\ ai_response.kind = "text") =>
        result.state = (IF HasSecondLine(ai_response.text)
                           /\ NamesState(FirstLine(ai_response.text))
                        THEN FirstLine(ai_response.text)[1] ELSE "ACCEPTABLE")

\* a lower-case first line followed by a feedback line
C8_Witness ==
    /\ Returned /\ ai_response.kind = "text"
    /\ ai_response.text = << "wrong", "NL", "theek" >>
    /\ result.state = "WRONG" /\ ~result.advance

\* the feedback was composed for the persona name
ComposedFor(feedback, name) == feedback[1] = name \/ feedback[1] = "Vadia! "

\* C9 as claimed: when the persona lookup finds no persona or raises, the
\* evaluation ends by returning a result composed with the default persona
\* "Teacher"; it never ends by raising.
C9_LookupFailureHandled ==
    (pc \in {"returned", "raised"} /\ lookup_calls = 1 /\ ~character.present) =>
        /\ Returned
        /\ ComposedFor(result.feedback, "Teacher")

\* the lookup of an unknown id returned None and the default persona was used
C9_Witness ==
    /\ Returned /\ character_id = "ghost" /\ lookup_calls = 1
    /\ result.feedback[1] = "Teacher"

\* C10 as claimed: every evaluation that was suspended in a collaborator
\* eventually returns an EvaluationResult.
C10_EventuallyReturns ==
    [](pc \in {"await_load", "await_gemini"} => <>(pc = "returned"))

\* a completion call that gave no response, answered by the fallback
C10_Witness ==
    /\ Returned /\ ai_response.kind = "missing" /\ result.state = "ACCEPTABLE"

\* the learner receives results of the AI path for steps of type lt again
\* and again
KeepsSubmitting(lt) == []<>(Returned /\ path = "ai" /\ lesson_type = lt)

\* C11 as claimed: for every lesson type, when every completion call fails, a
\* learner who keeps submitting answers that reach the AI path eventually
\* receives a result with advance = true.
C11_NeverBlocked ==
    \A lt \in LessonTypes :
        KeepsSubmitting(lt) => <>(Returned /\ path = "ai" /\ lesson_type = lt /\ result.advance)

\* a failed completion call on a text step, answered with advance = true
C11_Witness ==
    /\ Returned /\ path = "ai" /\ lesson_type = "text"
    /\ ai_response.kind = "raised" /\ result.advance

\* C12 as claimed: the result returned for a non-empty answer and an empty
\* expected-answer list has advance = true.
C12_EmptyExpectedAccepted ==
    (Returned /\ correct_answers_list = << >> /\ Strip(user_answer) # << >>) =>
        result.advance

\* a non-empty answer evaluated against an empty expected-answer list
C12_Witness ==
    /\ Returned /\ correct_answers_list = << >> /\ user_answer = A_A
    /\ lesson_type = "text" /\ heuristic = Zero /\ path = "fail"

\* the row of the fixed table for a tag: auto_pass and ai_zone_low in
\* hundredths, and the accept states
TableRow(tag) ==
    CASE tag = "mcq" -> << 95, 50, {"PERFECT"} >>
      [] tag = "text" -> << 90, 40, {"PERFECT", "ACCEPTABLE"} >>
      [] tag = "translation" -> << 88, 35, {"PERFECT", "ACCEPTABLE"} >>
      [] OTHER -> << 85, 45, {"PERFECT", "ACCEPTABLE"} >>

\* C13: get_thresholds returns the row of the fixed table for its tag: mcq
\* (0.95, 0.50, {PERFECT}), text (0.90, 0.40, {PERFECT, ACCEPTABLE}),
\* translation (0.88, 0.35, {PERFECT, ACCEPTABLE}) and (0.85, 0.45, {PERFECT,
\* ACCEPTABLE}) for every other tag.
C13_ThresholdTable ==
    method = "get_thresholds" =>
        /\ ret.auto_pass = TableRow(args.lesson_type)[1]
        /\ ret.ai_zone_low = TableRow(args.lesson_type)[2]
        /\ ret.accept_states = TableRow(args.lesson_type)[3]

\* the tag is compared as written: MCQ is not mcq and gets the defaults
C13_Witness ==
    /\ method = "get_thresholds" /\ args.lesson_type = "MCQ"
    /\ ret = [auto_pass |-> 85, ai_zone_low |-> 45,
              accept_states |-> {"PERFECT", "ACCEPTABLE"}]

\* the score of an answer against one expected answer
PairScore(answer, correct) ==
    Combined(sequence_similarity(normalize_text(answer), normalize_text(correct)),
             token_overlap(normalize_text(answer), normalize_text(correct)))

\* x <= y on floats
FloatLeq(x, y) == ~FloatLess(y, x)

\* the lists that hold the elements of a list in some order
Reorderings(list) ==
    { [i \in 1..Len(list) |-> list[p[i]]] : p \in Permutations(1..Len(list)) }

\* C14: heuristic_score returns the greatest of the scores
\* 0.6 * sequence_similarity + 0.4 * token_overlap of the normalized answer
\* against the normalized expected answers (0.0 for an empty list); the
\* result lies in [0, 1], is the same for every order of the expected
\* answers, and does not decrease when an expected answer is added.
C14_MaxOverExpected ==
    method = "heuristic_score" =>
        LET answer == args.user_answer
            expected == args.correct_answers
            scores == { PairScore(answer, expected[i]) : i \in 1..Len(expected) }
        IN /\ FloatLeq(Zero, ret) /\ FloatLeq(ret, One)
           /\ IF expected = << >> THEN ret = Zero ELSE ret \in scores
           /\ \A x \in scores : FloatLeq(x, ret)
           /\ \A other \in Reorderings(expected) : heuristic_score(answer, other) = ret
           /\ \A more \in ScorePool :
                  FloatLeq(ret, heuristic_score(answer, Append(expected, more)))

\* the best expected answer comes first in the list and a worse one after it
C14_Witness ==
    /\ method = "heuristic_score" /\ args.user_answer = A_A
    /\ args.correct_answers = << A_A_A, A_B >>
    /\ ret = PairScore(A_A, A_A_A) /\ FloatLess(PairScore(A_A, A_B), ret)

\* heuristic_score was called with the single expected answer of args
OneTarget == method = "heuristic_score" /\ Len(args.correct_answers) = 1

\* the score of the expected answer of args itself
IdenticalScore == heuristic_score(args.correct_answers[1], args.correct_answers)

\* C15 as claimed: against one expected answer, every answer that is not the
\* expected answer itself scores strictly lower than the expected answer.
C15_Original ==
    (OneTarget /\ args.user_answer # args.correct_answers[1]) =>
        FloatLess(ret, IdenticalScore)

\* C15 (amended): against one expected answer, an answer whose normalized
\* form is that of the expected answer scores the same as the expected answer
\* itself, and every answer whose normalized form differs scores strictly
\* lower.
C15_IdenticalScoresHighest ==
    OneTarget =>
        IF normalize_text(args.user_answer) = normalize_text(args.correct_answers[1])
        THEN ret = IdenticalScore
        ELSE FloatLess(ret, IdenticalScore)

\* an answer that differs from the expected answer in case and punctuation
\* only, and scores 1.0 as the expected answer does
C15_Witness ==
    /\ OneTarget /\ args.user_answer = UPPER /\ args.correct_answers = << A_A_A >>
    /\ ret = One /\ IdenticalScore = One

\* C16 as claimed: normalize_text applied to its own output returns that
\* output unchanged.
C16_Idempotent ==
    method = "normalize_text" => normalize_text(ret) = ret

\* the lower case of U+0130 is i followed by the combining dot, which the
\* regex of a second call would remove
C16_Witness ==
    /\ method = "normalize_text" /\ args.text = << "IDOT" >>
    /\ ret = << "i", "DOT" >>

\* the characters the claim allows in a normalized text: lower-case letters,
\* characters of the script range and the blank
AllowedInOutput(c) == c \in LowerLetters \/ InScriptRange(c) \/ c = " "

\* no blank at either end and no two blanks in a row
SingleSpaced(s) ==
    /\ s # << >> => (s[1] # " " /\ s[Len(s)] # " ")
    /\ \A i \in 1..(Len(s) - 1) : ~(s[i] = " " /\ s[i + 1] = " ")

\* C17 as claimed: the output of normalize_text holds only lower-case
\* alphanumeric characters, characters of the script range and single blanks
\* between words (no punctuation, underscore or other symbol), and an empty
\* or whitespace-only input gives the empty string.
C17_OnlyAllowedCharacters ==
    method = "normalize_text" =>
        /\ \A i \in 1..Len(ret) : AllowedInOutput(ret[i])
        /\ SingleSpaced(ret)
        /\ Strip(args.text) = << >> => ret = << >>

\* the underscore is a \w character and is kept
C17_Witness ==
    /\ method = "normalize_text" /\ args.text = << "a", "_", "!" >>
    /\ ret = << "a", "_" >>

\* C18: every result returned for an answer that was scored carries the
\* heuristic score of the call as its confidence, on the fast paths and on
\* the AI path whatever the completion call gave; the result of an empty
\* answer, for which no score is computed, carries none.
C18_ConfidenceIsHeuristic ==
    Returned =>
        /\ Scored <=> Strip(user_answer) # << >>
        /\ Scored => heuristic = heuristic_score(user_answer, correct_answers_list)
        /\ result.confidence = heuristic

\* an AI-path result that the completion call classified PERFECT: its
\* confidence is the score below auto_pass, not 1.0
C18_Witness ==
    /\ Returned /\ path = "ai" /\ ai_response.kind = "text"
    /\ result.state = "PERFECT" /\ result.confidence = heuristic
    /\ FloatLess(heuristic, AutoPass)

\* the template of a feedback, told by its fixed text
TemplateOf(feedback) ==
    LET last == feedback[Len(feedback)]
    IN CASE last = ": Bilkul sahi! Shabaash!" -> "celebration"
         [] last = " Agge vadh, bas eh gall yaad rakh..." -> "praise with text"
         [] last = ": Shabaash! Sahi jawab. Agge vadh." -> "praise"
         [] last = " Thoda aur try kar." -> "encouragement with text"
         [] last = ": Thoda aur sahi banake dubara try karo ji." -> "encouragement"
         [] last = ": Dubara try karo ji." -> "retry"
         [] last = ": Sahi jawab check karo ji." -> "default"
         [] OTHER -> IF Len(feedback) > 2 /\ feedback[2] = ": "
                     THEN "correction with text" ELSE "unknown"

\* the text appears unchanged in the feedback
Contains(feedback, text) ==
    \E i \in 1..(Len(feedback) - Len(text) + 1) :
        SubSeq(feedback, i, i + Len(text) - 1) = text

\* the templates that show the AI text
UsesText(template) ==
    template \in {"praise with text", "encouragement with text", "correction with text"}

\* C19: the template polish_feedback uses is decided by advance, the state
\* and whether there is AI text: advance with PERFECT gives the fixed
\* celebration of the persona and ignores the AI text; advance with
\* ACCEPTABLE the AI text when there is one and the generic praise otherwise;
\* no advance with PARTIAL the encouraging correction; every other case
\* without advance the correction with the AI text when there is one and the
\* generic retry prompt otherwise.
C19_TemplateSelection ==
    method = "polish_feedback" =>
        LET present == args.ai_feedback # << >>
            template == TemplateOf(ret)
        IN /\ (args.advance /\ args.state = "PERFECT") =>
                  ret = << CharName(args.character), ": Bilkul sahi! Shabaash!" >>
           /\ (args.advance /\ args.state = "ACCEPTABLE") =>
                  template = (IF present THEN "praise with text" ELSE "praise")
           /\ (~args.advance /\ args.state = "PARTIAL") =>
                  template = (IF present THEN "encouragement with text" ELSE "encouragement")
           /\ (~args.advance /\ args.state # "PARTIAL") =>
                  template = (IF present THEN "correction with text" ELSE "retry")
           /\ UsesText(template) => Contains(ret, args.ai_feedback)

\* PERFECT with advance and an AI text: the celebration, without the text
C19_Witness ==
    /\ method = "polish_feedback" /\ args.state = "PERFECT" /\ args.advance
    /\ args.ai_feedback = << "theek" >> /\ args.character = Characters["jaspreet"]
    /\ ret = << "Jaspreet", ": Bilkul sahi! Shabaash!" >>

\* C20 as claimed: every feedback polish_feedback returns contains the name
\* of the persona ("Teacher" when there is none), and contains the AI text
\* unchanged when the template shows it.
C20_PersonaNameInFeedback ==
    method = "polish_feedback" =>
        /\ CharName(args.character) \in Range(ret)
        /\ UsesText(TemplateOf(ret)) => Contains(ret, args.ai_feedback)

\* the praise with the AI text, which starts with "Vadia! " for every persona
C20_Witness ==
    /\ method = "polish_feedback" /\ args.state = "ACCEPTABLE" /\ args.advance
    /\ args.ai_feedback = << "theek" >> /\ args.character = Characters["jaspreet"]
    /\ ret = << "Vadia! ", "theek", " Agge vadh, bas eh gall yaad rakh..." >>

\* an exchange the prompt shows: it has a learner message and a reply
Shown(exchange) == user_msg(exchange) # "" /\ ai_msg(exchange) # ""

\* what an exchange tells: << learner message, reply >>
Told(exchange) == << user_msg(exchange), ai_msg(exchange) >>

\* the exchanges the conversation lines of the prompt tell
PromptExchanges ==
    [i \in 1..(Len(prompt.lines) \div 2) |->
        << prompt.lines[2 * i - 1][2], prompt.lines[2 * i][2] >>]

\* the last n entries of the history the caller gave
MostRecent(n) ==
    [i \in 1..n |-> passed.chat_history[Len(passed.chat_history) - n + i]]

\* the positions of the last three entries of the history the caller gave
Window ==
    { i \in 1..Len(passed.chat_history) : i + RecentWindow > Len(passed.chat_history) }

\* C21 as claimed: the prompt sent to the completion collaborator holds at
\* most 3 prior exchanges, and they are the most recent entries of the
\* history given to the evaluation, in their original order.
C21_Original ==
    prompt.sent =>
        LET n == Len(PromptExchanges)
        IN /\ n <= 3
           /\ n <= Len(passed.chat_history)
           /\ PromptExchanges = [i \in 1..n |-> Told(MostRecent(n)[i])]

\* C21: the prompt sent to the completion collaborator holds at most 3 prior
\* exchanges, and they are those of the 3 most recent entries of the history
\* given to the evaluation that have both a learner message and a reply, in
\* their original order, however long that history is.
C21_RecentShownExchanges ==
    prompt.sent =>
        LET shown == { i \in Window : Shown(passed.chat_history[i]) }
            n == Len(PromptExchanges)
        IN /\ n <= 3
           /\ n = Cardinality(shown)
           /\ \A k \in 1..n :
                  \E i \in shown :
                      /\ Cardinality({ j \in shown : j <= i }) = k
                      /\ PromptExchanges[k] = Told(passed.chat_history[i])

\* a history of four exchanges whose last three hold one without reply: the
\* prompt tells the other two
C21_Witness ==
    /\ prompt.sent
    /\ Len(passed.chat_history) = 4
    /\ \E i \in Window : ~Shown(passed.chat_history[i])
    /\ Len(PromptExchanges) = 2

C22_HistoriesScopedPerPair ==
    /\ \A p \in InProgress :
           \A i \in 1..Len(call[p].conversation_history) :
               call[p].conversation_history[i].by
                   = << call[p].user_id, call[p].character_id >>
    /\ \A key \in DOMAIN conversation_history :
           \A i, j \in 1..Len(conversation_history[key]) :
               conversation_history[key][i].by = conversation_history[key][j].by

\* a call of the learner a with the persona b_c hands to the evaluation an
\* entry of the learner a_b with the persona c
C22_Witness ==
    \E p \in Callers :
        /\ call[p].user_id = << "a" >>
        /\ call[p].character_id = << "b", "_", "c" >>
        /\ call[p].handed.given
        /\ Len(call[p].handed.conversation_history) = 1
        /\ call[p].handed.conversation_history[1].by
               = << << "a", "_", "b" >>, << "c" >> >>

C25_ReturnsNormally ==
    \A p \in Callers : call[p].handed.given => call[p].pc # "raised"

\* the call of a lesson step that lists a correct answer has raised TypeError
C25_Witness ==
    \E p \in Callers :
        /\ call[p].handed.given
        /\ call[p].handed.lesson_type = "text"
        /\ call[p].pc = "raised" /\ call[p].exception = "TypeError"

\* the call returns before it looks at the history: lines 126, 130, 138
ReturnsEarly(c) ==
    \/ ~get_lesson_by_index(c.current_lesson_index, c.character_id).found
    \/ c.current_step_index
           >= Len(get_lesson_by_index(c.current_lesson_index, c.character_id).steps)
    \/ IsEmptyAnswer(c.user_answer)

\* the entries stored under the key, none when the key is missing
Entries(history, key) == IF key \in DOMAIN history THEN history[key] ELSE << >>

\* C26 as claimed: a validate_answer call that evaluates a non-empty answer
\* appends exactly one (answer, feedback) entry to the history of its own
\* key, when it ends and with the feedback it returns; a call that returns
\* early appends nothing; no call removes or rewrites an earlier entry.
C26_OneEntryPerEvaluation ==
    [][\A p \in Callers :
           LET c == call[p]
               key == conversation_key(c.user_id, c.character_id)
               before == Entries(conversation_history, key)
               after == Entries(conversation_history', key)
               ends == c.pc \notin {"idle", "returned", "raised"}
                         /\ call'[p].pc \in {"returned", "raised"}
           IN /\ \A k \in DOMAIN conversation_history :
                     /\ k \in DOMAIN conversation_history'
                     /\ Len(conversation_history'[k]) >= Len(conversation_history[k])
                     /\ SubSeq(conversation_history'[k], 1, Len(conversation_history[k]))
                            = conversation_history[k]
              /\ (ends /\ ReturnsEarly(c)) => after = before
              /\ (ends /\ ~ReturnsEarly(c)) =>
                     /\ call'[p].result.built
                     /\ after = Append(before,
                                       [user_answer |-> c.user_answer,
                                        ai_feedback |-> call'[p].result.feedback,
                                        by |-> << c.user_id, c.character_id >>])]_vars

\* a call that evaluated an answer has raised and its history is empty
C26_Witness ==
    \E p \in Callers :
        /\ call[p].pc = "raised" /\ call[p].handed.given
        /\ conversation_history[conversation_key(call[p].user_id, call[p].character_id)]
               = << >>

\* C27 as claimed: the step types get_next_interaction treats as the same
\* kind of question ("mcq" and "multiple-choice", "text" and "text-input")
\* are evaluated with the same thresholds and the same accept states: the
\* lesson type validate_answer hands to the pipeline selects the row of the
\* other type of its kind.
C27_SameKindSameThresholds ==
    \A p \in Callers :
        call[p].handed.given =>
            LET lt == evaluate_answer_async(call[p].handed).lesson_type
            IN /\ lt = "multiple-choice" => get_thresholds(lt) = get_thresholds("mcq")
               /\ lt = "text-input" => get_thresholds(lt) = get_thresholds("text")

\* a multiple-choice step has been handed to the pipeline
C27_Witness ==
    \E p \in Callers :
        /\ call[p].handed.given
        /\ call[p].handed.lesson_type = "multiple-choice"
        /\ get_thresholds("multiple-choice").auto_pass = 85
        /\ get_thresholds("mcq").auto_pass = 95

\* validate_answer accepts the answer at the stored position whenever it
\* returns: the step lists no correct answer and quotes none, the answer is
\* not empty (lines 157-175: valid and advance)
Accepted(p, cid, answer) ==
    LET lesson == get_lesson_by_index(p.current_lesson_index, cid)
    IN /\ p.started
       /\ lesson.found
       /\ p.current_step_index < Len(lesson.steps)
       /\ ~IsEmptyAnswer(answer)
       /\ correct_answers_of(lesson.steps[p.current_step_index + 1]) = << >>

\* lessons.py lines 116-132: the progress after an accepted answer
Advanced(p, cid) ==
    LET lesson == get_lesson_by_index(p.current_lesson_index, cid)
    IN IF lesson.found /\ p.current_step_index + 1 >= Len(lesson.steps)
       THEN [p EXCEPT !.current_lesson_index = p.current_lesson_index + 1,
                      !.current_step_index = 0, !.completed = FALSE]
       ELSE [p EXCEPT !.current_step_index = p.current_step_index + 1,
                      !.completed = FALSE]

\* C28 as claimed: submit_answer changes the stored progress of a (user,
\* character) only when the validation result is both valid and advance:
\* then the step index grows by one or, at the last step of the lesson, the
\* lesson index grows by one and the step index is reset to 0; in every
\* other case the stored progress is unchanged, and the progress of the
\* other pairs is never changed.
C28_ProgressFollowsValidation ==
    [][(request.pc = "idle" /\ request'.handler = "submit_answer") =>
           LET pair == << request'.user_id, request'.character_id >>
           IN /\ \A other \in DOMAIN progress \ {pair} : progress'[other] = progress[other]
              /\ progress'[pair] =
                     IF Accepted(progress[pair], pair[2], request'.answer)
                     THEN Advanced(progress[pair], pair[2])
                     ELSE progress[pair]]_vars

\* an answer to the open question of a pair that has started is answered 500
C28_Witness ==
    /\ request.handler = "submit_answer" /\ request.status = 500
    /\ Accepted(progress[<< request.user_id, request.character_id >>],
                request.character_id, request.answer)
    /\ progress[<< request.user_id, request.character_id >>].current_step_index = 0

C30_NoDefaultMessage ==
    Returned =>
        /\ ~(result.advance /\ result.state \in {"PARTIAL", "WRONG"})
        /\ TemplateOf(result.feedback) # "default"

\* the completion call classified the answer PARTIAL: composed without
\* advance
C30_Witness ==
    /\ Returned /\ path = "ai" /\ ai_response.kind = "text"
    /\ result.state = "PARTIAL" /\ ~result.advance
    /\ TemplateOf(result.feedback) = "encouragement with text"

====
